---- MODULE Spec2Model ----
(***************************************************************************)
(* Model of the row-count reconciliation of MoveSync                      *)
(* (src/db_info.py, compare_row_counts and the functions it calls).       *)
(*                                                                         *)
(* Names are modelled by their rank in the lexicographic order, so a      *)
(* table identity is a pair <<schema, table>> of naturals.  A nullable    *)
(* cell of a result dict or of a DataFrame is None (<<>>) or Some(v)      *)
(* (<<v>>).                                                                *)
(***************************************************************************)
EXTENDS Naturals, Sequences, FiniteSets, TLC

\* ------------------------------------------------------------------ bounds
MaxCount == 1
MaxWorkers == 2
MaxRuns == 2

\* ------------------------------------------------------- program constants
DefaultMaxWorkers == 10

\* ------------------------------------------------------------- universe
Keys == {<<1, 2>>, <<2, 1>>}
Sides == {"source", "target"}
Tasks == Keys \X Sides
Counts == 0..MaxCount
WorkerBounds == (1..MaxWorkers) \cup {DefaultMaxWorkers}

None == <<>>
Some(v) == <<v>>

\* One endpoint's view of one table identity: the relation does not exist,
\* exists but cannot be counted (e.g. permission denied), or exists with n rows.
DbEntries ==
    {[exists |-> FALSE, locked |-> FALSE, nrows |-> 0],
     [exists |-> TRUE, locked |-> TRUE, nrows |-> 0]}
    \cup {[exists |-> TRUE, locked |-> FALSE, nrows |-> n] : n \in Counts}

VARIABLES
    db,          \* db[side][key]: the contents of the two databases
    max_workers, \* the max_workers argument
    run,         \* number of the current call of compare_row_counts
    pc,          \* position of the calling thread
    all_tables,  \* sorted(source_tables.union(target_tables))
    submitted,   \* number of entries of all_tables already submitted
    queue,       \* executor work queue (FIFO) of tasks not yet started
    futures,     \* futures[task]: state and result of the submitted future
    yielded,     \* futures already delivered by as_completed
    rows,        \* the dict rows, in insertion order
    frames,      \* merged_df and the two diff frames (lines 194-220)
    xlsx,        \* the workbook output_folder/reports.xlsx
    txt,         \* the text file output_folder/reports.txt
    saves,       \* labels passed to save_results_to_file in this run
    started,     \* started[task]: how often a worker began the task (history)
    delivered,   \* delivered[task]: how often the loop body received it (history)
    prevFull,    \* full table written by the previous completed run (history)
    open_conns,  \* number of connections and sessions currently open
    queries,     \* fetch_db_info: the loaded label -> query dict, None if unreadable
    catalog,     \* catalog[label]: what the label's query meets in the database
    ifutures,    \* fetch_db_info: state and result of each label's future
    iyielded,    \* fetch_db_info: futures already delivered by as_completed
    out_xlsx,    \* the workbook output_folder/output_<client>_<db>.xlsx
    out_txt,     \* the text file output_folder/output_<client>_<db>.txt
    isaves,      \* labels passed to save_results_to_file by fetch_db_info
    save_failed, \* labels whose save_results_to_file raised (history)
    logged,      \* labels of the "Query ... failed" log records (line 119)
    istarted     \* istarted[label]: how often find_objects began (history)

\* the variables of fetch_db_info
infoVars == <<queries, catalog, ifutures, iyielded, out_xlsx, out_txt, isaves,
              save_failed, logged, istarted>>

\* the variables of compare_row_counts
cmpVars == <<db, max_workers, run, all_tables, submitted, queue, futures,
             yielded, rows, frames, xlsx, txt, saves, started, delivered,
             prevFull>>

vars == <<pc, open_conns, cmpVars, infoVars>>

\* ------------------------------------------------------------ get_tables
\* get_tables: the (schemaname, relname) pairs of one endpoint's catalog.
get_tables(side) == {k \in Keys : db[side][k].exists}

KeyLess(a, b) == a[1] < b[1] \/ (a[1] = b[1] /\ a[2] < b[2])

\* sorted(S) for a set of (schema, table) tuples.
Sorted(S) ==
    CHOOSE s \in [1..Cardinality(S) -> S] :
        \A i, j \in 1..Cardinality(S) : i < j => KeyLess(s[i], s[j])

\* the target's enumeration is left out of the union
AllTables_SourceOnly == Sorted(get_tables("source"))

\* line 160-162
AllTables == Sorted(get_tables("source") \cup get_tables("target"))

\* ------------------------------------------------------------ count_rows
RowsField(side) ==
    IF side = "source" THEN "estimated_rows_source" ELSE "estimated_rows_target"

ErrorField(side) ==
    IF side = "source" THEN "source_error" ELSE "target_error"

\* str(e) of the exception the COUNT(*) query raises on this entry.
ErrorMessage(e) ==
    IF e.exists THEN "permission denied" ELSE "relation does not exist"

\* line 139-141: the query succeeds only on an existing, readable relation.
QuerySucceeds(e) == e.exists /\ ~e.locked

\* a failed count is reported as zero rows
CountCell_Zero(e) == IF QuerySucceeds(e) THEN Some(e.nrows) ELSE Some(0)

\* line 141: result["estimated_rows_<side>"]
CountCell(e) == IF QuerySucceeds(e) THEN Some(e.nrows) ELSE None

\* the exception is swallowed without being recorded
ErrorCell_Swallowed(e) == None

\* line 142-143: result["<side>_error"]
ErrorCell(e) == IF QuerySucceeds(e) THEN None ELSE Some(ErrorMessage(e))

\* count_rows(schema, table, engine, side): the four-key result dict.
count_rows(k, side) ==
    [f \in {"schema_name", "table_name", RowsField(side), ErrorField(side)} |->
        CASE f = "schema_name" -> k[1]
          [] f = "table_name" -> k[2]
          [] f = RowsField(side) -> CountCell(db[side][k])
          [] OTHER -> ErrorCell(db[side][k])]

\* ------------------------------------------------------------ aggregation
\* line 181-188: the default-initialised record
NewRecord(k) ==
    [schema_name |-> k[1], table_name |-> k[2],
     estimated_rows_source |-> None, estimated_rows_target |-> None,
     source_error |-> None, target_error |-> None]

\* the record is rebuilt from the defaults and the new result
Update_Overwrite(rec, result) ==
    [f \in DOMAIN rec |->
        IF f \in DOMAIN result THEN result[f]
        ELSE IF f \in {"schema_name", "table_name"} THEN rec[f] ELSE None]

\* dict.update
Update(rec, result) ==
    [f \in DOMAIN rec \cup DOMAIN result |->
        IF f \in DOMAIN result THEN result[f] ELSE rec[f]]

KeyOf(rec) == <<rec.schema_name, rec.table_name>>

RowKeys(rs) == {KeyOf(rs[i]) : i \in 1..Len(rs)}

IndexOf(rs, k) == CHOOSE i \in 1..Len(rs) : KeyOf(rs[i]) = k

\* line 179-189: create-or-update of rows[key]; a dict keeps insertion order.
Upsert(rs, k, result) ==
    IF k \notin RowKeys(rs)
    THEN Append(rs, Update(NewRecord(k), result))
    ELSE [rs EXCEPT ![IndexOf(rs, k)] = Update(@, result)]

\* ------------------------------------------------------------ diff engine
\* pandas notna
notna(cell) == cell # None

\* pandas elementwise ==: a missing value equals nothing, itself included.
PandasEq(a, b) == notna(a) /\ notna(b) /\ a = b

\* line 195-197
row_count_match(rec) ==
    Some(PandasEq(rec.estimated_rows_source, rec.estimated_rows_target))

\* line 194-197: merged_df, one row per value of rows, in dict order
MergedDf(rs) ==
    [i \in 1..Len(rs) |->
        rs[i] @@ [row_count_match |-> row_count_match(rs[i])]]

\* line 199, 202-205
source_set(df) ==
    {<<df[i].schema_name, df[i].table_name, df[i].estimated_rows_source[1]>> :
        i \in {j \in 1..Len(df) : notna(df[j].estimated_rows_source)}}

\* the count is left out of the target's tuples
target_set_NoCount(df) ==
    {<<df[i].schema_name, df[i].table_name, 0>> :
        i \in {j \in 1..Len(df) : notna(df[j].estimated_rows_target)}}

\* line 200, 206-209
target_set(df) ==
    {<<df[i].schema_name, df[i].table_name, df[i].estimated_rows_target[1]>> :
        i \in {j \in 1..Len(df) : notna(df[j].estimated_rows_target)}}

\* the operands of the difference are swapped
missing_in_source_Swapped(df) == source_set(df) \ target_set(df)

\* line 211
missing_in_source(df) == target_set(df) \ source_set(df)

\* the target's tuples are not subtracted
missing_in_target_NoMinus(df) == source_set(df)

\* line 212
missing_in_target(df) == source_set(df) \ target_set(df)

DiffRecord(t) ==
    [schema_name |-> t[1], table_name |-> t[2], estimated_rows |-> t[3]]

\* list(a_set): the elements once each, in an order the set decides.
ListsOf(S) ==
    {s \in [1..Cardinality(S) -> S] :
        \A i, j \in 1..Cardinality(S) : i # j => s[i] # s[j]}

\* line 214-220: the records of a diff frame
DiffFrames(S) ==
    {[i \in 1..Cardinality(S) |-> DiffRecord(l[i])] : l \in ListsOf(S)}

\* ------------------------------------------------------------ report sink
MarkerSheet == "MoveSync" :> <<"MoveSync">>

\* line 65-66: ExcelWriter(mode='a', if_sheet_exists='replace')
WriteSheet(book, label, data) ==
    [book EXCEPT !.sheets =
        [s \in DOMAIN @ \cup {label} |-> IF s = label THEN data ELSE @[s]]]

\* line 71-76: the section appended to the text file
AppendSection(file, label, data) ==
    Append(file, [label |-> label, total |-> Len(data), data |-> data])

FullLabel == "RowCountComparison"
MissingSourceLabel == "MissingInSource"
MissingTargetLabel == "MissingInTarget"

\* ------------------------------------------------------------ executor
Running == {t \in Tasks : futures[t].state = "RUNNING"}

Finished == {t \in Tasks : futures[t].state = "FINISHED"}

Submitted == {t \in Tasks : futures[t].state # "NONE"}

\* line 171-172: the sides submitted for one table, in order
SubmitSides == <<"source", "target">>

NoFuture == [state |-> "NONE", result |-> None]

NoFrames == [full |-> <<>>, missing_source |-> <<>>, missing_target |-> <<>>]

\* ------------------------------------------------------------ connections
\* line 36-37, 139: a session or connection is opened
Acquire(n) == n + 1

\* close() is reached only when the query did not raise
Release_OnSuccess(n, ok) == IF ok THEN n - 1 ELSE n

\* line 40-41, 139: finally: session.close(), and the exit of the with block,
\* run whether or not the query raised
Release(n, ok) == n - 1

\* ------------------------------------------------------------ discovery
\* the object kinds of a query-definition file
TypesNames == {"tables", "views"}

\* what a label's catalog query meets: rows, no row, or an error
CatalogOutcomes == {"rows", "empty", "error"}

\* an empty result is returned as it is
FindResult_Empty(types_name, fetched) ==
    IF fetched = "rows"
    THEN [kind |-> "list", data |-> <<types_name>>]
    ELSE [kind |-> "list", data |-> <<>>]

\* line 58-59: result if result else f"{types_name} not found."
FindResult(types_name, fetched) ==
    IF fetched = "rows"
    THEN [kind |-> "list", data |-> <<types_name>>]
    ELSE [kind |-> "str", data |-> "not found."]

\* line 52-59: find_objects; execute_query re-raises the query's error
find_objects(types_name) ==
    IF catalog[types_name] = "error"
    THEN [kind |-> "exception", data |-> "query error"]
    ELSE FindResult(types_name, catalog[types_name])

\* line 113: future.result() raises what find_objects raised
Raises(r) == r.kind = "exception"

\* line 114: if result
Truthy(r) == r.kind = "str" \/ (r.kind = "list" /\ r.data # <<>>)

\* line 64: DataFrame(results) for a list, DataFrame([results]) otherwise
SheetData(r) == IF r.kind = "list" THEN r.data ELSE <<r.data>>

InfoSubmitted == {l \in TypesNames : ifutures[l].state # "NONE"}

NoDb == [s \in Sides |-> [k \in Keys |->
            [exists |-> FALSE, locked |-> FALSE, nrows |-> 0]]]

NoCatalog == [l \in TypesNames |-> "empty"]

\* ------------------------------------------------------------ behaviour
\* the state in which no fetch_db_info is under way
InfoIdle ==
    /\ ifutures = [l \in TypesNames |-> NoFuture]
    /\ iyielded = {}
    /\ out_xlsx = [exists |-> FALSE, sheets |-> <<>>]
    /\ out_txt = <<>>
    /\ isaves = <<>>
    /\ save_failed = {}
    /\ logged = {}
    /\ istarted = [l \in TypesNames |-> 0]

\* the state in which no compare_row_counts is under way
CompareIdle ==
    /\ run = 1
    /\ all_tables = <<>>
    /\ submitted = 0
    /\ queue = <<>>
    /\ futures = [t \in Tasks |-> NoFuture]
    /\ yielded = {}
    /\ rows = <<>>
    /\ frames = NoFrames
    /\ xlsx = [exists |-> FALSE, sheets |-> <<>>]
    /\ txt = <<>>
    /\ saves = <<>>
    /\ started = [t \in Tasks |-> 0]
    /\ delivered = [t \in Tasks |-> 0]
    /\ prevFull = None

\* MoveSync.py --reports: compare_row_counts(source_engine, target_engine)
CompareInit ==
    /\ pc = "idle"
    /\ db \in [Sides -> [Keys -> DbEntries]]
    /\ max_workers \in WorkerBounds
    /\ open_conns = 0
    /\ CompareIdle
    /\ queries = None
    /\ catalog = NoCatalog
    /\ InfoIdle

\* MoveSync.py --info: fetch_db_info(engine, database_name, client); the
\* query-definition file is unreadable or holds any set of labels
InfoInit ==
    /\ pc = "info_idle"
    /\ db = NoDb
    /\ max_workers = DefaultMaxWorkers
    /\ open_conns = 0
    /\ CompareIdle
    /\ queries \in {None} \cup {Some(q) : q \in SUBSET TypesNames}
    /\ catalog \in [TypesNames -> CatalogOutcomes]
    /\ InfoIdle

Init == CompareInit \/ InfoInit

\* the file is opened for appending instead of being truncated
TruncateFile_Keep(file) == file

\* line 154: open(path, "w").close()
TruncateFile(file) == <<>>

\* line 151-158: the text file is truncated, the workbook removed if present
\* and recreated with the marker sheet only.
ClearSink ==
    /\ pc = "idle"
    /\ txt' = TruncateFile(txt)
    /\ xlsx' = [exists |-> TRUE, sheets |-> MarkerSheet]
    /\ pc' = "enumerate"
    /\ UNCHANGED <<db, max_workers, run, all_tables, submitted, queue, futures,
                   yielded, rows, frames, saves, started, delivered, prevFull>>
    /\ UNCHANGED <<open_conns, infoVars>>

\* line 160-164
Enumerate ==
    /\ pc = "enumerate"
    /\ all_tables' = AllTables
    /\ pc' = "submit"
    /\ UNCHANGED <<db, max_workers, run, submitted, queue, futures, yielded,
                   rows, frames, xlsx, txt, saves, started, delivered, prevFull>>
    /\ UNCHANGED <<open_conns, infoVars>>

\* line 123-129, 160-161: engine.connect() or the catalog query raises and
\* nothing catches it.
EnumerateFails ==
    /\ pc = "enumerate"
    /\ pc' = "failed"
    /\ UNCHANGED <<db, max_workers, run, all_tables, submitted, queue, futures,
                   yielded, rows, frames, xlsx, txt, saves, started, delivered,
                   prevFull>>
    /\ UNCHANGED <<open_conns, infoVars>>

\* line 170-172: one iteration of the submission loop
SubmitNext ==
    /\ pc = "submit"
    /\ submitted < Len(all_tables)
    /\ LET k == all_tables[submitted + 1]
           new == [i \in 1..Len(SubmitSides) |-> <<k, SubmitSides[i]>>]
       IN /\ queue' = queue \o new
          /\ futures' = [t \in Tasks |->
                IF \E i \in 1..Len(new) : new[i] = t
                THEN [state |-> "PENDING", result |-> None]
                ELSE futures[t]]
    /\ submitted' = submitted + 1
    /\ UNCHANGED <<db, max_workers, run, pc, all_tables, yielded, rows, frames,
                   xlsx, txt, saves, started, delivered, prevFull>>
    /\ UNCHANGED <<open_conns, infoVars>>

\* line 174: the submission loop is over, as_completed(futures) begins
SubmitDone ==
    /\ pc = "submit"
    /\ submitted = Len(all_tables)
    /\ pc' = "collect"
    /\ UNCHANGED <<db, max_workers, run, all_tables, submitted, queue, futures,
                   yielded, rows, frames, xlsx, txt, saves, started, delivered,
                   prevFull>>
    /\ UNCHANGED <<open_conns, infoVars>>

\* a new worker thread is created whatever the number of running ones
WorkerFree_Unbounded == TRUE

\* ThreadPoolExecutor(max_workers): at most max_workers worker threads exist
WorkerFree == Cardinality(Running) < max_workers

\* ThreadPoolExecutor(max_workers): an idle worker takes the oldest queued task
\* and count_rows opens its connection (line 139).
StartTask ==
    /\ queue # <<>>
    /\ WorkerFree
    /\ LET t == Head(queue)
       IN /\ futures' = [futures EXCEPT ![t].state = "RUNNING"]
          /\ started' = [started EXCEPT ![t] = @ + 1]
    /\ queue' = Tail(queue)
    /\ open_conns' = Acquire(open_conns)
    /\ UNCHANGED <<db, max_workers, run, pc, all_tables, submitted, yielded,
                   rows, frames, xlsx, txt, saves, delivered, prevFull>>
    /\ UNCHANGED infoVars

\* the worker merges its result into the shared dict itself
RowsAfterTask_Merged(rs, t) == Upsert(rs, t[1], count_rows(t[1], t[2]))

\* line 132-145: count_rows builds and returns its own dict and touches no
\* other object
RowsAfterTask(rs, t) == rs

\* line 131-145: the query is executed, the with block closes the connection,
\* count_rows returns in the worker and the future gets its result
FinishTask(t) ==
    /\ t \in Running
    /\ futures' = [futures EXCEPT
                     ![t] = [state |-> "FINISHED",
                             result |-> Some(count_rows(t[1], t[2]))]]
    /\ open_conns' = Release(open_conns, QuerySucceeds(db[t[2]][t[1]]))
    /\ rows' = RowsAfterTask(rows, t)
    /\ UNCHANGED <<db, max_workers, run, pc, all_tables, submitted, queue,
                   yielded, frames, xlsx, txt, saves, started, delivered,
                   prevFull>>
    /\ UNCHANGED infoVars

\* a finished future is yielded again
Deliverable_Again(t) == t \in Finished

\* as_completed: a finished future that has not been yielded yet
Deliverable(t) == t \in Finished /\ t \notin yielded

\* line 174-190: one iteration of the collection loop
Collect(t) ==
    /\ pc = "collect"
    /\ Deliverable(t)
    /\ yielded' = yielded \cup {t}
    /\ rows' = Upsert(rows, t[1], futures[t].result[1])
    /\ delivered' = [delivered EXCEPT ![t] = @ + 1]
    /\ UNCHANGED <<db, max_workers, run, pc, all_tables, submitted, queue,
                   futures, frames, xlsx, txt, saves, started, prevFull>>
    /\ UNCHANGED <<open_conns, infoVars>>

\* line 174, 167: as_completed is exhausted and the executor shut down
CollectDone ==
    /\ pc = "collect"
    /\ yielded = Submitted
    /\ pc' = "compute"
    /\ UNCHANGED <<db, max_workers, run, all_tables, submitted, queue, futures,
                   yielded, rows, frames, xlsx, txt, saves, started, delivered,
                   prevFull>>
    /\ UNCHANGED <<open_conns, infoVars>>

\* line 194-220.  pd.DataFrame of no records has no columns, so
\* merged_df["estimated_rows_source"] raises KeyError when rows is empty.
Compute ==
    /\ pc = "compute"
    /\ IF rows = <<>>
       THEN /\ pc' = "failed"
            /\ frames' = frames
       ELSE /\ pc' = "save_full"
            /\ \E ms \in DiffFrames(missing_in_source(MergedDf(rows))),
                  mt \in DiffFrames(missing_in_target(MergedDf(rows))) :
                 frames' = [full |-> MergedDf(rows),
                            missing_source |-> ms,
                            missing_target |-> mt]
    /\ UNCHANGED <<db, max_workers, run, all_tables, submitted, queue, futures,
                   yielded, rows, xlsx, txt, saves, started, delivered, prevFull>>
    /\ UNCHANGED <<open_conns, infoVars>>

\* line 61-78: save_results_to_file returns normally
Save(at, label, data, next) ==
    /\ pc = at
    /\ xlsx' = WriteSheet(xlsx, label, data)
    /\ txt' = AppendSection(txt, label, data)
    /\ saves' = Append(saves, label)
    /\ pc' = next
    /\ UNCHANGED <<db, max_workers, run, all_tables, submitted, queue, futures,
                   yielded, rows, frames, started, delivered, prevFull>>
    /\ UNCHANGED <<open_conns, infoVars>>

\* line 79-81: the workbook or the text file cannot be written; the
\* exception is re-raised and leaves compare_row_counts.
SaveFails(at, label, data) ==
    /\ pc = at
    /\ \/ xlsx' = xlsx
       \/ xlsx' = WriteSheet(xlsx, label, data)
    /\ saves' = Append(saves, label)
    /\ pc' = "failed"
    /\ UNCHANGED <<db, max_workers, run, all_tables, submitted, queue, futures,
                   yielded, rows, frames, txt, started, delivered, prevFull>>
    /\ UNCHANGED <<open_conns, infoVars>>

\* line 223
SaveFull == Save("save_full", FullLabel, frames.full, "save_missing_source")

SaveFullFails == SaveFails("save_full", FullLabel, frames.full)

\* line 224
SaveMissingSource ==
    Save("save_missing_source", MissingSourceLabel, frames.missing_source,
         "save_missing_target")

SaveMissingSourceFails ==
    SaveFails("save_missing_source", MissingSourceLabel, frames.missing_source)

\* line 225-227
SaveMissingTarget ==
    Save("save_missing_target", MissingTargetLabel, frames.missing_target, "done")

SaveMissingTargetFails ==
    SaveFails("save_missing_target", MissingTargetLabel, frames.missing_target)

\* compare_row_counts is called again on the same, unchanged databases.
CallAgain ==
    /\ pc \in {"done", "failed"}
    /\ run < MaxRuns
    /\ run' = run + 1
    /\ pc' = "idle"
    /\ prevFull' = IF pc = "done" THEN Some(xlsx.sheets[FullLabel]) ELSE prevFull
    /\ all_tables' = <<>>
    /\ submitted' = 0
    /\ queue' = <<>>
    /\ futures' = [t \in Tasks |-> NoFuture]
    /\ yielded' = {}
    /\ rows' = <<>>
    /\ frames' = NoFrames
    /\ saves' = <<>>
    /\ started' = [t \in Tasks |-> 0]
    /\ delivered' = [t \in Tasks |-> 0]
    /\ UNCHANGED <<db, max_workers, xlsx, txt>>
    /\ UNCHANGED <<open_conns, infoVars>>

\* line 167, 174: an exception such as KeyboardInterrupt is raised in the
\* calling thread inside the collection loop; the with block of the executor
\* is left through ThreadPoolExecutor.__exit__, i.e. shutdown(wait=True).
Interrupt ==
    /\ pc = "collect"
    /\ pc' = "aborting"
    /\ UNCHANGED <<open_conns, cmpVars, infoVars>>

\* line 167: shutdown(wait=True) returns once the work queue is drained and
\* the workers have ended; the exception then leaves compare_row_counts.
AbortDone ==
    /\ pc = "aborting"
    /\ queue = <<>>
    /\ Running = {}
    /\ pc' = "failed"
    /\ UNCHANGED <<open_conns, cmpVars, infoVars>>

\* line 84-91: the output files of fetch_db_info are reinitialised
InfoClear ==
    /\ pc = "info_idle"
    /\ out_txt' = TruncateFile(out_txt)
    /\ out_xlsx' = [exists |-> TRUE, sheets |-> MarkerSheet]
    /\ pc' = "info_load"
    /\ UNCHANGED <<open_conns, cmpVars, queries, catalog, ifutures, iyielded,
                   isaves, save_failed, logged, istarted>>

\* line 93-103: the query definitions are loaded; an unreadable file raises
LoadQueries ==
    /\ pc = "info_load"
    /\ pc' = IF queries = None THEN "info_failed" ELSE "info_submit"
    /\ UNCHANGED <<open_conns, cmpVars, infoVars>>

\* line 105-108: one label's find_objects is submitted
InfoSubmit(l) ==
    /\ pc = "info_submit"
    /\ l \in queries[1]
    /\ ifutures[l].state = "NONE"
    /\ ifutures' = [ifutures EXCEPT ![l].state = "PENDING"]
    /\ UNCHANGED <<pc, open_conns, cmpVars, queries, catalog, iyielded,
                   out_xlsx, out_txt, isaves, save_failed, logged, istarted>>

\* line 110: every label of queries has its future
InfoSubmitDone ==
    /\ pc = "info_submit"
    /\ InfoSubmitted = queries[1]
    /\ pc' = "info_collect"
    /\ UNCHANGED <<open_conns, cmpVars, infoVars>>

\* line 104, 52-54: a worker of ThreadPoolExecutor() (its default bound is
\* above the number of labels) begins find_objects and opens the session
StartInfoTask(l) ==
    /\ ifutures[l].state = "PENDING"
    /\ ifutures' = [ifutures EXCEPT ![l].state = "RUNNING"]
    /\ istarted' = [istarted EXCEPT ![l] = @ + 1]
    /\ open_conns' = Acquire(open_conns)
    /\ UNCHANGED <<pc, cmpVars, queries, catalog, iyielded, out_xlsx, out_txt,
                   isaves, save_failed, logged>>

\* line 54-59, 38-41: the query returns or raises, the session is closed
FinishInfoTask(l) ==
    /\ ifutures[l].state = "RUNNING"
    /\ ifutures' = [ifutures EXCEPT
                      ![l] = [state |-> "FINISHED",
                              result |-> Some(find_objects(l))]]
    /\ open_conns' = Release(open_conns, catalog[l] # "error")
    /\ UNCHANGED <<pc, cmpVars, queries, catalog, iyielded, out_xlsx, out_txt,
                   isaves, save_failed, logged, istarted>>

InfoDeliverable(l) == ifutures[l].state = "FINISHED" /\ l \notin iyielded

\* line 110-119: one iteration of the loop in which save_results_to_file, if
\* called, returns normally
InfoCollect(l) ==
    /\ pc = "info_collect"
    /\ InfoDeliverable(l)
    /\ iyielded' = iyielded \cup {l}
    /\ LET r == ifutures[l].result[1]
       IN IF Raises(r)
          THEN /\ logged' = logged \cup {l}
               /\ UNCHANGED <<out_xlsx, out_txt, isaves>>
          ELSE IF Truthy(r)
          THEN /\ out_xlsx' = WriteSheet(out_xlsx, l, SheetData(r))
               /\ out_txt' = AppendSection(out_txt, l, SheetData(r))
               /\ isaves' = Append(isaves, l)
               /\ logged' = logged
          ELSE UNCHANGED <<out_xlsx, out_txt, isaves, logged>>
    /\ UNCHANGED <<pc, open_conns, cmpVars, queries, catalog, ifutures,
                   save_failed, istarted>>

\* line 115, 79-81, 118-119: save_results_to_file raises; the except clause
\* of the loop catches the exception and logs it as the query's failure
InfoCollectSaveFails(l) ==
    /\ pc = "info_collect"
    /\ InfoDeliverable(l)
    /\ ~Raises(ifutures[l].result[1])
    /\ Truthy(ifutures[l].result[1])
    /\ iyielded' = iyielded \cup {l}
    /\ \/ out_xlsx' = out_xlsx
       \/ out_xlsx' = WriteSheet(out_xlsx, l, SheetData(ifutures[l].result[1]))
    /\ isaves' = Append(isaves, l)
    /\ save_failed' = save_failed \cup {l}
    /\ logged' = logged \cup {l}
    /\ UNCHANGED <<pc, open_conns, cmpVars, queries, catalog, ifutures,
                   out_txt, istarted>>

\* line 110, 121: as_completed is exhausted, fetch_db_info returns
InfoDone ==
    /\ pc = "info_collect"
    /\ iyielded = InfoSubmitted
    /\ pc' = "info_done"
    /\ UNCHANGED <<open_conns, cmpVars, infoVars>>

\* the steps of one call of fetch_db_info
InfoStep ==
    \/ InfoClear
    \/ LoadQueries
    \/ \E l \in TypesNames : InfoSubmit(l)
    \/ InfoSubmitDone
    \/ \E l \in TypesNames : StartInfoTask(l)
    \/ \E l \in TypesNames : FinishInfoTask(l)
    \/ \E l \in TypesNames : InfoCollect(l)
    \/ \E l \in TypesNames : InfoCollectSaveFails(l)
    \/ InfoDone

\* the steps of one call of compare_row_counts
CallStep ==
    \/ ClearSink
    \/ Enumerate
    \/ EnumerateFails
    \/ SubmitNext
    \/ SubmitDone
    \/ StartTask
    \/ \E t \in Tasks : FinishTask(t)
    \/ \E t \in Tasks : Collect(t)
    \/ CollectDone
    \/ Compute
    \/ SaveFull
    \/ SaveFullFails
    \/ SaveMissingSource
    \/ SaveMissingSourceFails
    \/ SaveMissingTarget
    \/ SaveMissingTargetFails

Next ==
    \/ CallStep
    \/ CallAgain
    \/ InfoStep

Spec == Init /\ [][Next]_vars

\* Every thread that can take a step eventually takes it: the calling thread
\* is never blocked for good and the executor's workers keep running.
Fairness ==
    /\ WF_vars(ClearSink)
    /\ WF_vars(Enumerate)
    /\ WF_vars(SubmitNext)
    /\ WF_vars(SubmitDone)
    /\ WF_vars(StartTask)
    /\ \A t \in Tasks : WF_vars(FinishTask(t))
    /\ \A t \in Tasks : WF_vars(Collect(t))
    /\ WF_vars(CollectDone)
    /\ WF_vars(Compute)

\* one call of compare_row_counts under fair scheduling
FairSpec == CompareInit /\ [][CallStep]_vars /\ Fairness

\* one call of compare_row_counts that the caller may interrupt
AbortStep ==
    \/ CallStep
    \/ Interrupt
    \/ AbortDone

AbortSpec == CompareInit /\ [][AbortStep]_vars /\ Fairness

\* ================================================================ claims
Union == get_tables("source") \cup get_tables("target")

\* the collection loop of this run is over
Aggregated ==
    pc \in {"compute", "save_full", "save_missing_source",
            "save_missing_target", "done"}

\* lines 194-220 of this run have been executed
Computed ==
    pc \in {"save_full", "save_missing_source", "save_missing_target", "done"}

\* the full table of this run has been handed to the sink
FullWritten == pc \in {"save_missing_source", "save_missing_target", "done"}

FullTable == xlsx.sheets[FullLabel]

FullRecord(k) ==
    frames.full[CHOOSE i \in 1..Len(frames.full) : KeyOf(frames.full[i]) = k]

Elems(seq) == {seq[i] : i \in 1..Len(seq)}

\* "only in source" is the frame saved as MissingInTarget, and conversely
OnlyInSource == Elems(frames.missing_target)
OnlyInTarget == Elems(frames.missing_source)
OnlyInSourceKeys == {KeyOf(r) : r \in OnlyInSource}
OnlyInTargetKeys == {KeyOf(r) : r \in OnlyInTarget}

Reads(side, k) == QuerySucceeds(db[side][k])

\* C1: once the collection loop is over, the keys of the aggregated mapping,
\* and the rows of the full table computed and written from it, are exactly the
\* union of the two enumerations, one record per table identity.
C1_KeysAreUnion ==
    /\ Aggregated =>
          /\ RowKeys(rows) = Union
          /\ Len(rows) = Cardinality(Union)
    /\ Computed =>
          /\ RowKeys(frames.full) = Union
          /\ Len(frames.full) = Cardinality(Union)
    /\ FullWritten =>
          /\ RowKeys(FullTable) = Union
          /\ Len(FullTable) = Cardinality(Union)

\* a finished run over two tables, one of them on the source only, with a
\* count task that failed
C1_Witness ==
    /\ pc = "done"
    /\ Union = Keys
    /\ \E k \in Keys : db["source"][k].exists /\ ~db["target"][k].exists
    /\ \E k \in Keys : db["target"][k].locked
    /\ RowKeys(FullTable) = Keys

\* C2: for every record of the full table, row_count_match is true iff both
\* sides report identical non-error counts, false iff both report counts that
\* differ, and absent if either side errored or has no count.
C2_MatchIsTriState ==
    Computed =>
        \A i \in 1..Len(frames.full) :
            LET r == frames.full[i]
                both == /\ notna(r.estimated_rows_source)
                        /\ notna(r.estimated_rows_target)
                        /\ r.source_error = None
                        /\ r.target_error = None
                same == r.estimated_rows_source = r.estimated_rows_target
            IN /\ r.row_count_match = Some(TRUE) <=> (both /\ same)
               /\ r.row_count_match = Some(FALSE) <=> (both /\ ~same)
               /\ ~both => r.row_count_match = None

\* C3 as stated: no table identity is a member of both diff sets, and neither
\* set contains an identity whose source and target counts are equal.
C3_DisjointIdentities ==
    Computed =>
        /\ OnlyInSourceKeys \cap OnlyInTargetKeys = {}
        /\ \A k \in OnlyInSourceKeys \cup OnlyInTargetKeys :
              ~PandasEq(FullRecord(k).estimated_rows_source,
                        FullRecord(k).estimated_rows_target)

\* C3 (amended): the two diff sets are disjoint as sets of (schema, table,
\* count) tuples; a table identity is in both exactly when both sides report a
\* count and the counts differ; neither set contains an identity whose source
\* and target counts are equal.
C3_DisjointTuples ==
    Computed =>
        /\ OnlyInSource \cap OnlyInTarget = {}
        /\ \A k \in Union :
              (k \in OnlyInSourceKeys /\ k \in OnlyInTargetKeys) <=>
                  /\ notna(FullRecord(k).estimated_rows_source)
                  /\ notna(FullRecord(k).estimated_rows_target)
                  /\ FullRecord(k).estimated_rows_source
                        # FullRecord(k).estimated_rows_target
        /\ \A k \in OnlyInSourceKeys \cup OnlyInTargetKeys :
              ~PandasEq(FullRecord(k).estimated_rows_source,
                        FullRecord(k).estimated_rows_target)

\* a finished run with one table whose counts differ, in both diff sets, and
\* one table whose counts are equal, in neither
C3_Witness ==
    /\ pc = "done"
    /\ \E k \in Keys : k \in OnlyInSourceKeys /\ k \in OnlyInTargetKeys
    /\ \E k \in Keys :
          /\ Reads("source", k) /\ Reads("target", k)
          /\ db["source"][k].nrows = db["target"][k].nrows
          /\ k \notin OnlyInSourceKeys \cup OnlyInTargetKeys

\* the table exists and is counted on `side` and does not exist on `other`
OnlyOn(side, other, k) == Reads(side, k) /\ ~db[other][k].exists

\* C4: a table that exists on one side only (counted there, no count from the
\* other side) is in the full table with the missing side's count absent, not
\* zero, and is in exactly one diff set, the one of the side it exists on.
C4_OneSidedTable ==
    Computed =>
        \A k \in Keys :
            /\ OnlyOn("source", "target", k) =>
                  /\ k \in RowKeys(frames.full)
                  /\ FullRecord(k).estimated_rows_target = None
                  /\ FullRecord(k).estimated_rows_source
                        = Some(db["source"][k].nrows)
                  /\ k \in OnlyInSourceKeys
                  /\ k \notin OnlyInTargetKeys
            /\ OnlyOn("target", "source", k) =>
                  /\ k \in RowKeys(frames.full)
                  /\ FullRecord(k).estimated_rows_source = None
                  /\ FullRecord(k).estimated_rows_target
                        = Some(db["target"][k].nrows)
                  /\ k \in OnlyInTargetKeys
                  /\ k \notin OnlyInSourceKeys

\* a finished run with an empty table on the source only and a table on the
\* target only
C4_Witness ==
    /\ pc = "done"
    /\ \E k \in Keys :
          OnlyOn("source", "target", k) /\ db["source"][k].nrows = 0
    /\ \E k \in Keys : OnlyOn("target", "source", k)
    /\ Len(FullTable) = Cardinality(Keys)

HasError(r) == r.source_error # None \/ r.target_error # None

\* C5 as stated: a record for which a side recorded an error is in neither
\* diff set, and is in the full table.
C5_ErrorRowsInNoDiffSet ==
    Computed =>
        \A i \in 1..Len(frames.full) :
            HasError(frames.full[i]) =>
                KeyOf(frames.full[i]) \notin OnlyInSourceKeys \cup OnlyInTargetKeys

\* C5 (amended): a record for which a side recorded an error is never in the
\* diff set of the side that errored; it is in the diff set of the other side
\* exactly when that side reported a count; and it is in the full table.
C5_ErrorSideInNoDiffSet ==
    Computed =>
        \A k \in Union :
            /\ k \in RowKeys(frames.full)
            /\ FullRecord(k).source_error # None =>
                  /\ k \notin OnlyInSourceKeys
                  /\ k \in OnlyInTargetKeys
                        <=> notna(FullRecord(k).estimated_rows_target)
            /\ FullRecord(k).target_error # None =>
                  /\ k \notin OnlyInTargetKeys
                  /\ k \in OnlyInSourceKeys
                        <=> notna(FullRecord(k).estimated_rows_source)

\* a finished run with a table that cannot be read on the target and is
\* counted on the source, and a table that cannot be read on either side
C5_Witness ==
    /\ pc = "done"
    /\ \E k \in Union :
          /\ db["target"][k].locked
          /\ Reads("source", k)
          /\ FullRecord(k).target_error # None
          /\ k \in OnlyInSourceKeys
    /\ \E k \in Union :
          /\ FullRecord(k).target_error # None
          /\ FullRecord(k).source_error # None
          /\ k \notin OnlyInSourceKeys \cup OnlyInTargetKeys

\* the count tasks of the tables of the union, one per side
UnionTasks == Union \X Sides

\* each task of the union was submitted, begun once and delivered once
AllDeliveredOnce ==
    /\ Submitted = UnionTasks
    /\ \A t \in UnionTasks : started[t] = 1 /\ delivered[t] = 1
    /\ \A t \in Tasks \ UnionTasks : started[t] = 0 /\ delivered[t] = 0

NoTaskTwice ==
    /\ Submitted \subseteq UnionTasks
    /\ \A t \in Tasks : started[t] <= 1 /\ delivered[t] <= 1
    /\ \A t \in Tasks : delivered[t] = 1 => futures[t].state = "FINISHED"
    /\ Cardinality(Submitted) = Len(SubmitSides) * submitted

\* C6: for every worker bound, exactly two count tasks are submitted per table
\* identity, no task is begun or delivered to the aggregator twice, and once
\* submission has begun every task is eventually begun once and delivered once,
\* whatever the order of completion.
C6_EveryTaskOnce ==
    /\ [] NoTaskTwice
    /\ (pc = "submit") ~> (pc = "compute" /\ AllDeliveredOnce)

\* four tasks on one worker, all delivered, a target task of the second table
\* aggregated before the tasks of the first
C6_Witness ==
    /\ pc = "compute"
    /\ max_workers = 1
    /\ Cardinality(UnionTasks) = 4
    /\ AllDeliveredOnce
    /\ KeyOf(rows[1]) = <<2, 1>>

\* C7: when the count query of one side of one table fails, that side's error
\* field of the table's record holds the failure and its count is absent, every
\* other task is still run and aggregated, the three datasets are written, and
\* no run is aborted between aggregation and the first write.
C7_TaskFailureIsRecorded ==
    /\ Computed =>
          \A k \in Union :
              /\ ~Reads("source", k) =>
                    /\ FullRecord(k).source_error
                          = Some(ErrorMessage(db["source"][k]))
                    /\ FullRecord(k).estimated_rows_source = None
              /\ ~Reads("target", k) =>
                    /\ FullRecord(k).target_error
                          = Some(ErrorMessage(db["target"][k]))
                    /\ FullRecord(k).estimated_rows_target = None
              /\ Reads("source", k) =>
                    /\ FullRecord(k).source_error = None
                    /\ FullRecord(k).estimated_rows_source
                          = Some(db["source"][k].nrows)
              /\ Reads("target", k) =>
                    /\ FullRecord(k).target_error = None
                    /\ FullRecord(k).estimated_rows_target
                          = Some(db["target"][k].nrows)
    /\ (pc = "failed" /\ rows # <<>>) => saves # <<>>
    /\ pc = "done" =>
          /\ AllDeliveredOnce
          /\ DOMAIN xlsx.sheets =
                {"MoveSync", FullLabel, MissingSourceLabel, MissingTargetLabel}
          /\ xlsx.sheets[FullLabel] = frames.full

\* a finished run in which the target count of one table was refused while the
\* other table was counted on both sides
C7_Witness ==
    /\ pc = "done"
    /\ \E k \in Keys :
          /\ db["target"][k].locked
          /\ FullRecord(k).target_error = Some("permission denied")
    /\ \E k \in Keys : Reads("source", k) /\ Reads("target", k)
    /\ Len(txt) = 3

IsSorted(seq) ==
    \A i, j \in 1..Len(seq) : i < j => KeyLess(KeyOf(seq[i]), KeyOf(seq[j]))

\* C8: the rows of the full table handed to the sink are in lexicographic
\* (schema_name, table_name) order, for every completion order.
C8_FullTableSorted == FullWritten => IsSorted(FullTable)

\* C9: a second run over the same, unchanged databases writes the same full
\* table as the first, row for row.
C9_SameFullTable ==
    (pc = "done" /\ prevFull # None) => FullTable = prevFull[1]

Labels(file) == [i \in 1..Len(file) |-> file[i].label]

IsPrefix(a, b) == Len(a) <= Len(b) /\ \A i \in 1..Len(a) : a[i] = b[i]

ThreeLabels == <<FullLabel, MissingSourceLabel, MissingTargetLabel>>

\* the positions of a run of fetch_db_info, which has a sink of its own
InfoPcs ==
    {"info_idle", "info_load", "info_submit", "info_collect", "info_done",
     "info_failed"}

CompareSaveFailed == Len(saves) > Len(txt)

\* C11: whenever a write to the report sink fails, in compare_row_counts or in
\* fetch_db_info, the run ends as failed; no run completes normally after a
\* sink write has failed.
C11_SinkFailureIsFatal ==
    /\ CompareSaveFailed => pc = "failed"
    /\ save_failed # {} => pc # "info_done"

\* C12: a run is aborted only by a configuration failure or a sink failure;
\* no remote query failure, the failure of the table enumeration included,
\* ends the run with an error.
C12_OnlyConfigOrSinkAborts ==
    /\ pc = "failed" => CompareSaveFailed
    /\ pc = "info_failed" => queries = None

Occurrences(seq, x) == Cardinality({i \in 1..Len(seq) : seq[i] = x})

\* what the sink holds for a label whose query did not fail
ExpectedSheet(l) == IF catalog[l] = "rows" THEN <<l>> ELSE <<"not found.">>

\* C13: in fetch_db_info every label of the query set is executed exactly
\* once; a label whose query did not fail (rows, or no row and so the 'not
\* found' marker) is handed to the sink exactly once and, unless that write
\* itself fails, is in the workbook and once in the text file; a label whose
\* query failed is recorded as failed, is not written, and does not stop the
\* other labels.
C13_DiscoveryPerLabel ==
    /\ \A l \in TypesNames : istarted[l] <= 1 /\ Occurrences(isaves, l) <= 1
    /\ pc = "info_done" =>
          \A l \in TypesNames :
              IF l \notin queries[1]
              THEN /\ istarted[l] = 0
                   /\ Occurrences(isaves, l) = 0
                   /\ l \notin logged
              ELSE /\ istarted[l] = 1
                   /\ l \in iyielded
                   /\ IF catalog[l] = "error"
                      THEN /\ l \in logged
                           /\ Occurrences(isaves, l) = 0
                           /\ l \notin DOMAIN out_xlsx.sheets
                           /\ Occurrences(Labels(out_txt), l) = 0
                      ELSE /\ Occurrences(isaves, l) = 1
                           /\ l \in logged <=> l \in save_failed
                           /\ l \notin save_failed =>
                                 /\ l \in DOMAIN out_xlsx.sheets
                                 /\ out_xlsx.sheets[l] = ExpectedSheet(l)
                                 /\ Occurrences(Labels(out_txt), l) = 1

\* fetch_db_info has returned; the query of one label failed, the other label
\* had no row and its marker is in the workbook
C13_Witness ==
    /\ pc = "info_done"
    /\ queries = Some(TypesNames)
    /\ catalog["tables"] = "error"
    /\ catalog["views"] = "empty"
    /\ "tables" \in logged
    /\ "views" \in DOMAIN out_xlsx.sheets
    /\ out_xlsx.sheets["views"] = <<"not found.">>

\* C14: when the loaded query-definition set is empty, fetch_db_info does not
\* finish as a successful run.
C14_EmptyQuerySetIsAnError ==
    pc = "info_done" => queries[1] # {}

\* what count_rows reports for one side of one table, read off the database
ExpectedCount(side, k) ==
    IF Reads(side, k) THEN Some(db[side][k].nrows) ELSE None

ExpectedError(side, k) ==
    IF Reads(side, k) THEN None ELSE Some(ErrorMessage(db[side][k]))

RowOf(k) == rows[IndexOf(rows, k)]

\* C15: whichever side of a table is delivered first, its record carries the
\* count or error of every side delivered so far and the defaults for a side
\* not yet delivered: merging the second outcome loses nothing of the first,
\* and the final record holds both sides' results.
C15_RecordKeepsBothSides ==
    \A k \in Keys :
        /\ k \in RowKeys(rows) <=> \E sd \in Sides : <<k, sd>> \in yielded
        /\ k \in RowKeys(rows) =>
              /\ RowOf(k).estimated_rows_source =
                    IF <<k, "source">> \in yielded
                    THEN ExpectedCount("source", k) ELSE None
              /\ RowOf(k).source_error =
                    IF <<k, "source">> \in yielded
                    THEN ExpectedError("source", k) ELSE None
              /\ RowOf(k).estimated_rows_target =
                    IF <<k, "target">> \in yielded
                    THEN ExpectedCount("target", k) ELSE None
              /\ RowOf(k).target_error =
                    IF <<k, "target">> \in yielded
                    THEN ExpectedError("target", k) ELSE None

\* both outcomes of a table have been merged, a count from the source and an
\* error from the target, while the other table's target outcome alone has
\* been delivered
C15_Witness ==
    /\ pc = "collect"
    /\ \E k \in Keys :
          /\ <<k, "source">> \in yielded /\ <<k, "target">> \in yielded
          /\ RowOf(k).estimated_rows_source = Some(1)
          /\ RowOf(k).target_error = Some("permission denied")
    /\ \E k \in Keys :
          /\ <<k, "target">> \in yielded /\ <<k, "source">> \notin yielded
          /\ RowOf(k).estimated_rows_target = Some(0)

\* the (schema, table, count) tuples of one side with a count, from the database
SideTuples(side) ==
    {<<k[1], k[2], db[side][k].nrows>> : k \in {j \in Union : Reads(side, j)}}

FrameTuples(frame) ==
    {<<r.schema_name, r.table_name, r.estimated_rows>> : r \in Elems(frame)}

\* C16: the only-in-target set is the target side's (schema, table, count)
\* tuples with a count minus the source side's, the only-in-source set the
\* same with the sides swapped, each tuple once; so a table with a count on one
\* side is in that side's set exactly when the other side's count is absent or
\* different.
C16_DiffIsTupleDifference ==
    /\ Computed =>
          /\ FrameTuples(frames.missing_source)
                = SideTuples("target") \ SideTuples("source")
          /\ FrameTuples(frames.missing_target)
                = SideTuples("source") \ SideTuples("target")
          /\ Len(frames.missing_source)
                = Cardinality(FrameTuples(frames.missing_source))
          /\ Len(frames.missing_target)
                = Cardinality(FrameTuples(frames.missing_target))
          /\ \A k \in Union :
                /\ Reads("target", k) =>
                      (k \in OnlyInTargetKeys <=>
                          \/ ~Reads("source", k)
                          \/ db["source"][k].nrows # db["target"][k].nrows)
                /\ Reads("source", k) =>
                      (k \in OnlyInSourceKeys <=>
                          \/ ~Reads("target", k)
                          \/ db["source"][k].nrows # db["target"][k].nrows)
    /\ pc = "done" =>
          /\ xlsx.sheets[MissingSourceLabel] = frames.missing_source
          /\ xlsx.sheets[MissingTargetLabel] = frames.missing_target

\* a finished run: one table counted 1 on the target and 0 on the source, the
\* other counted on the target and without a count on the source
C16_Witness ==
    /\ pc = "done"
    /\ \E k \in Keys :
          /\ Reads("source", k) /\ Reads("target", k)
          /\ db["source"][k].nrows = 0 /\ db["target"][k].nrows = 1
          /\ k \in OnlyInTargetKeys
    /\ \E k \in Keys :
          /\ Reads("target", k) /\ ~Reads("source", k)
          /\ k \in OnlyInTargetKeys
    /\ Len(xlsx.sheets[MissingSourceLabel]) = 2

\* C17: at every moment the number of count tasks begun and not finished is at
\* most max_workers; a queued task is begun only when fewer are running.
C17_BoundedConcurrency ==
    /\ Cardinality(Running) <= max_workers
    /\ \A t \in Running : started[t] = 1
    /\ \A i \in 1..Len(queue) : futures[queue[i]].state = "PENDING"

\* one worker: a task is running and the three others wait in the queue
C17_Witness ==
    /\ max_workers = 1
    /\ Cardinality(Running) = 1
    /\ Len(queue) = 3

InfoRunning == {l \in TypesNames : ifutures[l].state = "RUNNING"}

\* C18: every find_objects and count_rows closes the session or connection it
\* opened, whether its query succeeded or failed: the open ones are exactly
\* those of the tasks under way, and none is open once a run has ended.
C18_ConnectionsReleased ==
    /\ open_conns = Cardinality(Running) + Cardinality(InfoRunning)
    /\ pc \in {"done", "failed", "info_done", "info_failed"} => open_conns = 0

\* fetch_db_info has returned after one query failed and one succeeded
C18_Witness ==
    /\ pc = "info_done"
    /\ catalog["tables"] = "error"
    /\ catalog["views"] = "rows"
    /\ istarted["tables"] = 1
    /\ istarted["views"] = 1
    /\ open_conns = 0

\* C19: once an exception has left the collection loop, no task that was
\* submitted and not yet begun is begun.
C19_NoStartAfterAbort ==
    [][pc = "aborting" => started' = started]_vars

WorkerStep ==
    \/ \E t \in Tasks : futures[t].state # futures'[t].state
                         /\ futures'[t].state \in {"RUNNING", "FINISHED"}
    \/ \E l \in TypesNames : ifutures[l].state # ifutures'[l].state
                              /\ ifutures'[l].state \in {"RUNNING", "FINISHED"}

\* C20: the aggregation map and the report sink are changed only by steps of
\* the calling thread (the collection loop, the clearing and the saves), one
\* at a time; a step of a worker thread changes neither.
C20_OnlyCallerWrites ==
    [][/\ WorkerStep =>
             /\ rows' = rows
             /\ xlsx' = xlsx /\ txt' = txt
             /\ out_xlsx' = out_xlsx /\ out_txt' = out_txt
       /\ (rows' # rows /\ run' = run) => pc = "collect"
       /\ (xlsx' # xlsx \/ txt' # txt) =>
             pc \in {"idle", "save_full", "save_missing_source",
                     "save_missing_target"}
       /\ (out_xlsx' # out_xlsx \/ out_txt' # out_txt) =>
             pc \in {"info_idle", "info_collect"}]_vars

\* the calling thread has written one label to the sink while the worker of
\* the other label is still running
C20_Witness ==
    /\ pc = "info_collect"
    /\ Len(out_txt) = 1
    /\ InfoRunning # {}

====
